---- MODULE Spec2Model ----
(***************************************************************************)
(* A model of msg2eml.py: the command-line front end (main), the batch     *)
(* driver (convert_directory) and the single-file converter                *)
(* (convert_msg_to_eml), run against a small file system.                  *)
(*                                                                         *)
(* A file name is a sequence of tokens ("a", ".", "msg"), a path is a      *)
(* sequence of names relative to the working directory (<<>> is "."), an   *)
(* optional value is <<>> (Python's None) or <<v>>.  The empty string      *)
(* given as an argument is the path <<>>.                                  *)
(*                                                                         *)
(* Every call of the try block that can raise has a failing step next to   *)
(* its succeeding one.  The prints to stderr (errors='backslashreplace')   *)
(* and msg.close() are taken not to raise.                                 *)
(***************************************************************************)
EXTENDS Integers, Sequences, FiniteSets, TLC

VARIABLES
    platform,       \* "posix" | "windows": the flavour of pathlib in use
    args,           \* argparse's Namespace: input, output, directory, recursive
    fs,             \* the file system: path -> [kind, data]
    pc,             \* the control point of the process
    mode,           \* "none" | "single" | "dir": the branch main took
    exitCode,       \* the argument of sys.exit, -1 while running
    msg_files,      \* convert_directory: the glob's result
    todo,           \* convert_directory: the files the loop has not reached
    counts,         \* convert_directory: <<success_count, failure_count>>
    msg_path,       \* convert_msg_to_eml: its first argument
    output_arg,     \* convert_msg_to_eml: its second argument (optional)
    output_path,    \* convert_msg_to_eml: the resolved output path (optional)
    result,         \* convert_msg_to_eml: its return value (optional path)
    exc,            \* the exception this call of convert_msg_to_eml raised, "" when none
    handles,        \* the MSG files whose decoder (extract_msg.Message) is open
    fs0,            \* history: the file system at process start
    fsAtCall,       \* history: the file system when convert_msg_to_eml was entered
    calls,          \* history: msg_path -> the number of convert_msg_to_eml calls with it
    dirCalls,       \* history: the number of convert_directory calls
    decoderCalls,   \* history: the paths extract_msg.Message(...) was called with
    escaped         \* history: an exception left convert_msg_to_eml

vars == <<platform, args, fs, pc, mode, exitCode, msg_files, todo, counts,
          msg_path, output_arg, output_path, result, exc, handles,
          fs0, fsAtCall, calls, dirCalls, decoderCalls, escaped>>

\* The most directory entries the initial file system holds.
MaxEntries == 3

-----------------------------------------------------------------------------
(* Optional values and Python's truth test                                 *)

None == <<>>
Some(v) == <<v>>

\* `if x` / `not x` on an argparse string: None and "" are false.
Truthy(opt) == opt # None /\ opt[1] # <<>>

\* `if result` on the return value: a Path object is always true.
ResultTruthy(r) == r # None

-----------------------------------------------------------------------------
(* pathlib                                                                 *)

SetMax(S) == CHOOSE x \in S : \A y \in S : y <= x

\* str.lower() on one token.
Lower(tok) ==
    CASE tok = "MSG" -> "msg"
      [] tok = "B" -> "b"
      [] OTHER -> tok

\* PurePath.name
NameOf(p) == IF p = <<>> THEN <<>> ELSE p[Len(p)]

\* PurePath.parent
Parent(p) == IF p = <<>> THEN <<>> ELSE SubSeq(p, 1, Len(p) - 1)

\* PurePath.suffix: from the last dot on, unless that dot starts or ends the name.
Suffix(p) ==
    LET name == NameOf(p)
        dots == {i \in 1..Len(name) : name[i] = "."}
    IN  IF dots = {} THEN <<>>
        ELSE LET i == SetMax(dots)
             IN  IF i > 1 /\ i < Len(name)
                 THEN SubSeq(name, i, Len(name))
                 ELSE <<>>

EmlSuffix == <<".", "eml">>

\* PurePath.with_suffix: the old suffix, if any, is cut off and the new one added.
WithSuffix(p, suffix) ==
    LET name == NameOf(p)
        old  == Suffix(p)
    IN  Parent(p) \o <<SubSeq(name, 1, Len(name) - Len(old)) \o suffix>>

\* PurePath.relative_to, for a path below base.
RelativeTo(p, base) == SubSeq(p, Len(base) + 1, Len(p))

IsBelow(p, base) ==
    Len(p) > Len(base) /\ SubSeq(p, 1, Len(base)) = base

\* Path.exists(): a dangling symbolic link does not exist.
Exists(f, p) == p \in DOMAIN f /\ f[p].kind # "link"

\* Path.is_dir()
IsDir(f, p) == Exists(f, p) /\ f[p].kind = "dir"

\* The pattern *.msg against one name; matching follows the flavour's case rule.
MatchesMsg(name, plat) ==
    /\ Len(name) >= 2
    /\ name[Len(name) - 1] = "."
    /\ IF plat = "windows"
       THEN Lower(name[Len(name)]) = "msg"
       ELSE name[Len(name)] = "msg"

\* list(input_dir.glob('**/*.msg' if recursive else '*.msg'))
Glob(f, dir, recursive, plat) ==
    {p \in DOMAIN f :
        /\ IsBelow(p, dir)
        /\ recursive \/ Len(p) = Len(dir) + 1
        /\ MatchesMsg(NameOf(p), plat)}

\* Path.mkdir(parents=True, exist_ok=True) can succeed: no ancestor is a file.
MkdirPossible(f, dir) ==
    \A k \in 0..Len(dir) :
        LET a == SubSeq(dir, 1, k)
        IN  a \in DOMAIN f => f[a].kind = "dir"

DirEntry == [kind |-> "dir", data |-> ""]

\* The file system after Path.mkdir(parents=True, exist_ok=True).
Mkdir(f, dir) ==
    LET missing == {SubSeq(dir, 1, k) : k \in 0..Len(dir)} \ DOMAIN f
    IN  [p \in DOMAIN f \cup missing |-> IF p \in DOMAIN f THEN f[p] ELSE DirEntry]

\* The file system with the regular file p holding data.
WithFile(f, p, data) ==
    [q \in DOMAIN f \cup {p} |->
        IF q = p THEN [kind |-> "file", data |-> data] ELSE f[q]]

-----------------------------------------------------------------------------
(* The inputs                                                              *)

N_in  == <<"in">>
N_out == <<"out">>
N_sub == <<"sub">>

A_msg   == <<"a", ".", "msg">>
B_MSG   == <<"B", ".", "MSG">>
C_msg   == <<"c", ".", "msg">>
L_msg   == <<"l", ".", "msg">>
Dot_msg == <<".", "msg">>
Dot_msg_msg == <<".", "msg", ".", "msg">>
Notes_txt == <<"notes", ".", "txt">>
A_eml   == <<"a", ".", "eml">>

InDir  == <<N_in>>
OutDir == <<N_out>>

\* The directory entries an initial file system is drawn from.
Candidates ==
    << [path |-> <<N_in, A_msg>>,        kind |-> "file", data |-> "msg"],
       [path |-> <<N_in, B_MSG>>,        kind |-> "file", data |-> "msg"],
       [path |-> <<N_in, Notes_txt>>,    kind |-> "file", data |-> "txt"],
       [path |-> <<N_in, Dot_msg>>,      kind |-> "file", data |-> "msg"],
       [path |-> <<N_in, Dot_msg_msg>>,  kind |-> "file", data |-> "msg"],
       [path |-> <<N_in, N_sub, C_msg>>, kind |-> "file", data |-> "msg"],
       [path |-> <<N_in, L_msg>>,        kind |-> "link", data |-> ""],
       [path |-> <<N_out>>,              kind |-> "file", data |-> "old"],
       [path |-> <<N_out, A_eml>>,       kind |-> "file", data |-> "old"] >>

Ancestors(p) == {SubSeq(p, 1, k) : k \in 0..(Len(p) - 1)}

\* No chosen entry lies below a chosen regular file.
Consistent(S) ==
    \A i \in S, j \in S :
        Candidates[i].path \notin Ancestors(Candidates[j].path)

\* The file system holding the entries S and the directories above them.
MakeFs(S) ==
    LET leaves == {Candidates[i].path : i \in S}
        dirs   == (UNION {Ancestors(p) : p \in leaves} \cup {<<>>}) \ leaves
        entry(p) == LET i == CHOOSE j \in S : Candidates[j].path = p
                    IN  [kind |-> Candidates[i].kind, data |-> Candidates[i].data]
    IN  [p \in leaves \cup dirs |-> IF p \in leaves THEN entry(p) ELSE DirEntry]

InputArgs  == {None, Some(<<N_in, A_msg>>), Some(<<N_in, Notes_txt>>)}
DirArgs    == {None, Some(<<>>), Some(InDir)}
OutputArgs == {None, Some(<<>>), Some(OutDir), Some(<<N_out, A_eml>>)}
Platforms  == {"posix", "windows"}

Init ==
    /\ platform \in Platforms
    /\ args \in [input : InputArgs, output : OutputArgs,
                 directory : DirArgs, recursive : BOOLEAN]
    /\ \E S \in SUBSET (1..Len(Candidates)) :
          /\ Cardinality(S) <= MaxEntries
          /\ Consistent(S)
          /\ fs = MakeFs(S)
    /\ fs0 = fs
    /\ fsAtCall = fs
    /\ pc = "main"
    /\ mode = "none"
    /\ exitCode = -1
    /\ msg_files = {}
    /\ todo = {}
    /\ counts = <<0, 0>>
    /\ msg_path = <<>>
    /\ output_arg = None
    /\ output_path = None
    /\ result = None
    /\ exc = ""
    /\ handles = {}
    /\ calls = <<>>
    /\ dirCalls = 0
    /\ decoderCalls = {}
    /\ escaped = FALSE

-----------------------------------------------------------------------------
(* main                                                                    *)

\* A slip: only the missing-argument test is made.
UsageErrorOnlyMissing(a) ==
    ~Truthy(a.input) /\ ~Truthy(a.directory)

\* The two argument tests of main, both ending in sys.exit(1).
UsageError(a) ==
    \/ ~Truthy(a.input) /\ ~Truthy(a.directory)
    \/ Truthy(a.input) /\ Truthy(a.directory)

\* The number of convert_msg_to_eml calls made so far for p.
CallsOf(p) == IF p \in DOMAIN calls THEN calls[p] ELSE 0

\* The entry into convert_msg_to_eml(p, out).
CallConvert(p, out) ==
    /\ msg_path' = p
    /\ output_arg' = out
    /\ output_path' = None
    /\ result' = None
    /\ exc' = ""
    /\ fsAtCall' = fs
    /\ calls' = [q \in DOMAIN calls \cup {p} |->
                    IF q = p THEN CallsOf(p) + 1 ELSE calls[q]]
    /\ pc' = "conv_start"

\* main: the arguments are rejected.
MainUsage ==
    /\ pc = "main"
    /\ UsageError(args)
    /\ exitCode' = 1
    /\ pc' = "exit"
    /\ UNCHANGED <<platform, args, fs, mode, msg_files, todo, counts, msg_path,
                   output_arg, output_path, result, exc, handles, fs0, fsAtCall,
                   calls, dirCalls, decoderCalls, escaped>>

\* main: directory mode, the call of convert_directory.
MainDirectory ==
    /\ pc = "main"
    /\ ~UsageError(args)
    /\ Truthy(args.directory)
    /\ mode' = "dir"
    /\ dirCalls' = dirCalls + 1
    /\ pc' = "dir_start"
    /\ UNCHANGED <<platform, args, fs, exitCode, msg_files, todo, counts, msg_path,
                   output_arg, output_path, result, exc, handles, fs0, fsAtCall,
                   calls, decoderCalls, escaped>>

\* main: single-file mode, the call of convert_msg_to_eml.
MainSingle ==
    /\ pc = "main"
    /\ ~UsageError(args)
    /\ ~Truthy(args.directory)
    /\ Truthy(args.input)
    /\ mode' = "single"
    /\ CallConvert(args.input[1], args.output)
    /\ UNCHANGED <<platform, args, fs, exitCode, msg_files, todo, counts,
                   handles, fs0, dirCalls, decoderCalls, escaped>>

\* sys.exit(0 if failure == 0 else 1)
DirExitCode(c) == IF c[2] = 0 THEN 0 ELSE 1

\* main: convert_directory has returned.
MainDirectoryExit ==
    /\ pc = "dir_ret"
    /\ exitCode' = DirExitCode(counts)
    /\ pc' = "exit"
    /\ UNCHANGED <<platform, args, fs, mode, msg_files, todo, counts, msg_path,
                   output_arg, output_path, result, exc, handles, fs0, fsAtCall,
                   calls, dirCalls, decoderCalls, escaped>>

\* main: convert_msg_to_eml has returned.
MainSingleExit ==
    /\ pc = "conv_ret"
    /\ mode = "single"
    /\ exitCode' = IF ResultTruthy(result) THEN 0 ELSE 1
    /\ pc' = "exit"
    /\ UNCHANGED <<platform, args, fs, mode, msg_files, todo, counts, msg_path,
                   output_arg, output_path, result, exc, handles, fs0, fsAtCall,
                   calls, dirCalls, decoderCalls, escaped>>

-----------------------------------------------------------------------------
(* convert_directory                                                       *)

\* A slip: the relative directory is dropped under an output directory.
BatchOutputFlat(msg_file, input_dir, output_dir) ==
    IF Truthy(output_dir)
    THEN output_dir[1] \o <<NameOf(WithSuffix(msg_file, EmlSuffix))>>
    ELSE WithSuffix(msg_file, EmlSuffix)

\* The output path the loop passes on for msg_file.
BatchOutput(msg_file, input_dir, output_dir) ==
    IF Truthy(output_dir)
    THEN output_dir[1] \o WithSuffix(RelativeTo(msg_file, input_dir), EmlSuffix)
    ELSE WithSuffix(msg_file, EmlSuffix)

\* A slip: a failed conversion is not counted.
TallyDropsFailure(r, c) ==
    IF ResultTruthy(r) THEN <<c[1] + 1, c[2]>> ELSE c

\* The counters after one result.
Tally(r, c) ==
    IF ResultTruthy(r) THEN <<c[1] + 1, c[2]>> ELSE <<c[1], c[2] + 1>>

\* The directory test, the glob and the counters' start.
DirStart ==
    /\ pc = "dir_start"
    /\ LET input_dir == args.directory[1]
           found == Glob(fs, input_dir, args.recursive, platform)
       IN  IF ~Exists(fs, input_dir) \/ ~IsDir(fs, input_dir) \/ found = {}
           THEN /\ pc' = "dir_ret"
                /\ UNCHANGED <<msg_files, todo>>
           ELSE /\ msg_files' = found
                /\ todo' = found
                /\ pc' = "loop"
    /\ counts' = <<0, 0>>
    /\ UNCHANGED <<platform, args, fs, mode, exitCode, msg_path, output_arg,
                   output_path, result, exc, handles, fs0, fsAtCall, calls,
                   dirCalls, decoderCalls, escaped>>

\* One turn of the loop up to the call; the list's order is the file system's.
LoopCall ==
    /\ pc = "loop"
    /\ \E msg_file \in todo :
          /\ todo' = todo \ {msg_file}
          /\ CallConvert(msg_file,
                 Some(BatchOutput(msg_file, args.directory[1], args.output)))
    /\ UNCHANGED <<platform, args, fs, mode, exitCode, msg_files, counts,
                   handles, fs0, dirCalls, decoderCalls, escaped>>

\* The rest of the turn: the result is counted.  The frame of the call that
\* returned is gone, and result is not read again before the next call sets it.
LoopTally ==
    /\ pc = "conv_ret"
    /\ mode = "dir"
    /\ counts' = Tally(result, counts)
    /\ pc' = "loop"
    /\ msg_path' = <<>>
    /\ output_arg' = None
    /\ output_path' = None
    /\ result' = None
    /\ exc' = ""
    /\ fsAtCall' = fs
    /\ UNCHANGED <<platform, args, fs, mode, exitCode, msg_files, todo,
                   handles, fs0, calls, dirCalls, decoderCalls, escaped>>

\* The loop is over: the counters are returned.
LoopReturn ==
    /\ pc = "loop"
    /\ todo = {}
    /\ pc' = "dir_ret"
    /\ UNCHANGED <<platform, args, fs, mode, exitCode, msg_files, todo, counts,
                   msg_path, output_arg, output_path, result, exc, handles, fs0,
                   fsAtCall, calls, dirCalls, decoderCalls, escaped>>

-----------------------------------------------------------------------------
(* convert_msg_to_eml                                                      *)

\* The exceptions the body raises: the decoder's and the serializer's errors,
\* OSError from mkdir/open/write, UnicodeEncodeError from print.
ExceptionKinds == {"DecodeError", "SerializeError", "OSError", "UnicodeEncodeError"}

\* A slip: only file-system errors are handled.
CaughtOnlyOSError(e) == e = "OSError"

\* `except Exception` handles every one of them.
Caught(e) == e \in ExceptionKinds

\* A slip: the existence test is left out.
NotFoundNever(f, p) == FALSE

\* `if not msg_path.exists()`
NotFound(f, p) == ~Exists(f, p)

\* The output path: the input's with .eml when none is given, else the given one.
ResolveOutput(p, out) ==
    IF out = None THEN WithSuffix(p, EmlSuffix) ELSE out[1]

convFrame == <<platform, args, mode, exitCode, msg_files, todo, counts, msg_path,
               output_arg, fs0, fsAtCall, calls, dirCalls>>

\* A raise inside the try block: control moves to the except clause.
Raise(e) ==
    /\ exc' = e
    /\ pc' = "c_except"

\* The existence test: a missing input is reported and None returned.
ConvNotFound ==
    /\ pc = "conv_start"
    /\ NotFound(fs, msg_path)
    /\ result' = None
    /\ pc' = "conv_ret"
    /\ UNCHANGED <<convFrame, fs, output_path, exc, handles, decoderCalls, escaped>>

\* The input exists; the extension test only warns.
ConvFound ==
    /\ pc = "conv_start"
    /\ ~NotFound(fs, msg_path)
    /\ pc' = "c_open"
    /\ UNCHANGED <<convFrame, fs, output_path, result, exc, handles,
                   decoderCalls, escaped>>

\* extract_msg.Message(str(msg_path)) opens the container.
ConvOpenOk ==
    /\ pc = "c_open"
    /\ msg_path \in DOMAIN fs
    /\ fs[msg_path].kind = "file"
    /\ fs[msg_path].data = "msg"
    /\ handles' = handles \cup {msg_path}
    /\ decoderCalls' = decoderCalls \cup {msg_path}
    /\ pc' = "c_resolve"
    /\ UNCHANGED <<convFrame, fs, output_path, result, exc, escaped>>

\* extract_msg.Message raises: not a container, corrupt, unreadable.
ConvOpenFail ==
    /\ pc = "c_open"
    /\ decoderCalls' = decoderCalls \cup {msg_path}
    /\ Raise("DecodeError")
    /\ UNCHANGED <<convFrame, fs, output_path, result, handles, escaped>>

\* The output path is resolved and its parent directories are made.
ConvMkdirOk ==
    /\ pc = "c_resolve"
    /\ LET out == ResolveOutput(msg_path, output_arg)
       IN  /\ MkdirPossible(fs, Parent(out))
           /\ output_path' = Some(out)
           /\ fs' = Mkdir(fs, Parent(out))
    /\ pc' = "c_serialize"
    /\ UNCHANGED <<convFrame, result, exc, handles, decoderCalls, escaped>>

\* mkdir raises: an ancestor is a regular file, or a directory cannot be made.
ConvMkdirFail ==
    /\ pc = "c_resolve"
    /\ LET out == ResolveOutput(msg_path, output_arg)
       IN  /\ ~MkdirPossible(fs, Parent(out)) \/ Parent(out) \notin DOMAIN fs
           /\ output_path' = Some(out)
    /\ Raise("OSError")
    /\ UNCHANGED <<convFrame, fs, result, handles, decoderCalls, escaped>>

\* msg.asEmailMessage()
ConvSerializeOk ==
    /\ pc = "c_serialize"
    /\ pc' = "c_fopen"
    /\ UNCHANGED <<convFrame, fs, output_path, result, exc, handles,
                   decoderCalls, escaped>>

\* msg.asEmailMessage() raises.
ConvSerializeFail ==
    /\ pc = "c_serialize"
    /\ Raise("SerializeError")
    /\ UNCHANGED <<convFrame, fs, output_path, result, handles, decoderCalls,
                   escaped>>

\* open(output_path, 'wb') creates the file or truncates the one there.
ConvFileOpenOk ==
    /\ pc = "c_fopen"
    /\ ~IsDir(fs, output_path[1])
    /\ fs' = WithFile(fs, output_path[1], "")
    /\ pc' = "c_write"
    /\ UNCHANGED <<convFrame, output_path, result, exc, handles, decoderCalls,
                   escaped>>

\* open raises: the path is a directory, or it may not be written.
ConvFileOpenFail ==
    /\ pc = "c_fopen"
    /\ Raise("OSError")
    /\ UNCHANGED <<convFrame, fs, output_path, result, handles, decoderCalls,
                   escaped>>

\* f.write(email_msg.as_bytes()) and the end of the with block.
ConvWriteOk ==
    /\ pc = "c_write"
    /\ fs' = WithFile(fs, output_path[1], "eml")
    /\ pc' = "c_close"
    /\ UNCHANGED <<convFrame, output_path, result, exc, handles, decoderCalls,
                   escaped>>

\* email_msg.as_bytes() raises: the file, already open, stays empty.
ConvAsBytesFail ==
    /\ pc = "c_write"
    /\ Raise("SerializeError")
    /\ UNCHANGED <<convFrame, fs, output_path, result, handles, decoderCalls,
                   escaped>>

\* f.write raises part-way (the disk is full): some of the bytes are there.
ConvWriteFail ==
    /\ pc = "c_write"
    /\ fs' = WithFile(fs, output_path[1], "partial")
    /\ Raise("OSError")
    /\ UNCHANGED <<convFrame, output_path, result, handles, decoderCalls, escaped>>

\* msg.close()
ConvClose ==
    /\ pc = "c_close"
    /\ handles' = handles \ {msg_path}
    /\ pc' = "c_print"
    /\ UNCHANGED <<convFrame, fs, output_path, result, exc, decoderCalls, escaped>>

\* The success line is printed and output_path returned.
ConvReturn ==
    /\ pc = "c_print"
    /\ result' = output_path
    /\ pc' = "conv_ret"
    /\ UNCHANGED <<convFrame, fs, output_path, exc, handles, decoderCalls, escaped>>

\* print raises: stdout cannot encode the check mark of the success line.
ConvPrintFail ==
    /\ pc = "c_print"
    /\ Raise("UnicodeEncodeError")
    /\ UNCHANGED <<convFrame, fs, output_path, result, handles, decoderCalls,
                   escaped>>

\* The except clause: the error is printed and None returned.  An exception
\* it does not handle leaves the function and ends the process.
ConvExcept ==
    /\ pc = "c_except"
    /\ IF Caught(exc)
       THEN /\ result' = None
            /\ pc' = "conv_ret"
            /\ UNCHANGED <<escaped, exitCode>>
       ELSE /\ escaped' = TRUE
            /\ exitCode' = 1
            /\ pc' = "exit"
            /\ UNCHANGED result
    /\ UNCHANGED <<platform, args, mode, msg_files, todo, counts, msg_path,
                   output_arg, fs0, fsAtCall, calls, dirCalls, fs, output_path,
                   exc, handles, decoderCalls>>

-----------------------------------------------------------------------------

Next ==
    \/ MainUsage
    \/ MainDirectory
    \/ MainSingle
    \/ MainDirectoryExit
    \/ MainSingleExit
    \/ DirStart
    \/ LoopCall
    \/ LoopTally
    \/ LoopReturn
    \/ ConvNotFound
    \/ ConvFound
    \/ ConvOpenOk
    \/ ConvOpenFail
    \/ ConvMkdirOk
    \/ ConvMkdirFail
    \/ ConvSerializeOk
    \/ ConvSerializeFail
    \/ ConvFileOpenOk
    \/ ConvFileOpenFail
    \/ ConvWriteOk
    \/ ConvAsBytesFail
    \/ ConvWriteFail
    \/ ConvClose
    \/ ConvReturn
    \/ ConvPrintFail
    \/ ConvExcept

Spec == Init /\ [][Next]_vars

-----------------------------------------------------------------------------
(* Properties                                                              *)

InConvert ==
    pc \in {"conv_start", "c_open", "c_resolve", "c_serialize", "c_fopen",
            "c_write", "c_close", "c_print", "c_except"}

Handled == msg_files \ todo

\* C1: in convert_directory, success_count + failure_count is the number of
\* files handled so far after each turn of the loop, and the number of files
\* the glob found when the pair is returned, whichever conversions fail.
C1_CountsMatchFiles ==
    /\ pc = "loop" => counts[1] + counts[2] = Cardinality(Handled)
    /\ (mode = "dir" /\ (InConvert \/ pc = "conv_ret"))
          => counts[1] + counts[2] = Cardinality(Handled) - 1
    /\ (mode = "dir" /\ pc \in {"dir_ret", "exit"})
          => counts[1] + counts[2] = Cardinality(msg_files)

\* C1 witness: a batch of three files has returned with one success and two failures.
C1_Witness ==
    /\ pc = "dir_ret"
    /\ Cardinality(msg_files) >= 3
    /\ counts[1] >= 1
    /\ counts[2] >= 2

\* C2: in a batch run no exception leaves convert_msg_to_eml, a call that
\* raised returns None, no file is passed to convert_msg_to_eml twice, the
\* files passed so far are the files the loop has reached, and at the end
\* every file the glob found has been passed.
C2_FailureIsolated ==
    /\ ~escaped
    /\ (pc = "conv_ret" /\ exc # "") => result = None
    /\ mode = "dir" =>
          /\ \A f \in DOMAIN calls : calls[f] = 1
          /\ DOMAIN calls = Handled
          /\ pc \in {"dir_ret", "exit"} => DOMAIN calls = msg_files

\* C2 witness: after two failed files the loop is converting a further file.
C2_Witness ==
    /\ mode = "dir"
    /\ pc = "c_open"
    /\ counts[2] >= 2
    /\ exc = ""

\* C3 (as stated): when convert_msg_to_eml has returned, and when it is
\* entered for the next file, no decoder handle is open.
C3_HandlesClosedOnReturn ==
    pc \in {"conv_ret", "conv_start", "loop", "dir_ret", "exit"} => handles = {}

\* What the output path of the current call holds in file system f.
OutputIn(f) ==
    LET out == ResolveOutput(msg_path, output_arg)
    IN  IF out \in DOMAIN f THEN f[out] ELSE [kind |-> "absent", data |-> ""]

\* C4 (as stated): when convert_msg_to_eml returns None the output path holds
\* what it held at entry (nothing, if nothing was there); when it returns a
\* path the output path holds the complete message.
C4_WriteAllOrNothing ==
    pc = "conv_ret" =>
        IF result = None
        THEN OutputIn(fs) = OutputIn(fsAtCall)
        ELSE OutputIn(fs) = [kind |-> "file", data |-> "eml"]

NothingConverted ==
    /\ DOMAIN calls = {}
    /\ dirCalls = 0
    /\ decoderCalls = {}
    /\ fs = fs0

\* C5 (as stated): with both the input and -d supplied, or neither, the
\* process exits with 1 and nothing is converted, read or written.
C5_Original ==
    (pc # "main" /\ ((args.input # None) <=> (args.directory # None)))
        => pc = "exit" /\ exitCode = 1 /\ NothingConverted

\* C5 (amended): with both the input and -d supplied non-empty, or neither
\* supplied non-empty (absent or the empty string), the process exits with 1
\* and nothing is converted, read or written.
C5_UsageErrorConvertsNothing ==
    (pc # "main" /\ (Truthy(args.input) <=> Truthy(args.directory)))
        => pc = "exit" /\ exitCode = 1 /\ NothingConverted

\* C5 witness: the process has exited with both an existing input file and a
\* directory holding MSG files given.
C5_Witness ==
    /\ pc = "exit"
    /\ Truthy(args.input)
    /\ Truthy(args.directory)
    /\ Exists(fs, args.input[1])
    /\ Glob(fs, args.directory[1], args.recursive, platform) # {}

\* C6 (as stated): single-file mode exits 0 exactly when the conversion
\* succeeded, directory mode exits 0 exactly when failure_count = 0, and a
\* missing input file or input directory gives exit code 1.
C6_ExitCode ==
    pc = "exit" =>
        /\ mode = "single" =>
              /\ exitCode = 0 <=> result # None
              /\ ~Exists(fs0, args.input[1]) => exitCode = 1
        /\ mode = "dir" =>
              /\ exitCode = 0 <=> counts[2] = 0
              /\ ~Exists(fs0, args.directory[1]) => exitCode = 1

\* C7: a call of convert_msg_to_eml on a path that does not exist returns
\* None, never calls the decoder and leaves the file system as it was, with
\* or without an output path.
C7_MissingInputNoEffect ==
    ((InConvert \/ pc = "conv_ret") /\ ~Exists(fsAtCall, msg_path)) =>
        /\ fs = fsAtCall
        /\ msg_path \notin decoderCalls
        /\ msg_path \notin handles
        /\ pc \in {"conv_start", "conv_ret"}
        /\ pc = "conv_ret" => result = None

\* C7 witness: a call on a missing path has returned, with an output path
\* whose directory does not exist.
C7_Witness ==
    /\ pc = "conv_ret"
    /\ ~Exists(fsAtCall, msg_path)
    /\ output_arg # None
    /\ Parent(output_arg[1]) \notin DOMAIN fs
    /\ result = None

\* The extension test of the claim: the name ends in .msg, in any case.
HasMsgExtension(name) ==
    /\ Len(name) >= 2
    /\ name[Len(name) - 1] = "."
    /\ name[Len(name)] \in {"msg", "MSG"}

\* C8 (as stated): the files processed are the direct children of the input
\* directory (recursive off) or the entries of its whole subtree (recursive
\* on) whose extension is .msg in any case, and no others.
C8_ProcessedSet ==
    (mode = "dir" /\ pc = "dir_ret" /\ IsDir(fs0, args.directory[1])) =>
        DOMAIN calls =
            {p \in DOMAIN fs0 :
                /\ IsBelow(p, args.directory[1])
                /\ ~args.recursive => Len(p) = Len(args.directory[1]) + 1
                /\ HasMsgExtension(NameOf(p))}

\* The positions of the dots of a name.
DotsOf(name) == {i \in 1..Len(name) : name[i] = "."}

\* A name with its extension, the part from the last dot on, replaced by .eml;
\* a name with no dot past its first character has no extension and gets .eml
\* added.
ExtensionReplaced(name) ==
    IF DotsOf(name) \ {1} = {}
    THEN name \o <<".", "eml">>
    ELSE SubSeq(name, 1, SetMax(DotsOf(name)) - 1) \o <<".", "eml">>

\* Nothing but target differs from the file system at entry, new directories aside.
OnlyWritten(target) ==
    /\ DOMAIN fsAtCall \subseteq DOMAIN fs
    /\ \A p \in DOMAIN fs \ {target} :
          IF p \in DOMAIN fsAtCall THEN fs[p] = fsAtCall[p] ELSE fs[p].kind = "dir"
    /\ pc \in {"c_write", "c_close", "c_print"} =>
          target \in DOMAIN fs /\ fs[target].kind = "file"
    /\ (pc = "conv_ret" /\ result # None) =>
          /\ result = Some(target)
          /\ target \in DOMAIN fs
          /\ fs[target] = [kind |-> "file", data |-> "eml"]

\* The statement of C9, for one reading of "an output directory is given".
C9_Statement(outputGiven) ==
    (InConvert \/ pc = "conv_ret") =>
        /\ mode = "dir" =>
              LET rel == RelativeTo(msg_path, args.directory[1])
                  eml == <<ExtensionReplaced(NameOf(msg_path))>>
              IN  output_arg =
                     IF outputGiven
                     THEN Some(args.output[1] \o Parent(rel) \o eml)
                     ELSE Some(Parent(msg_path) \o eml)
        /\ OnlyWritten(IF output_arg = None
                       THEN Parent(msg_path) \o <<ExtensionReplaced(NameOf(msg_path))>>
                       ELSE output_arg[1])

\* C9 (as stated): in a batch run the output path passed on is the output
\* directory, when one is given, joined with the file's path relative to the
\* input directory, else the file's own path, the extension replaced by .eml;
\* the converter writes to the path it was given, or with none given to the
\* input path with the extension replaced by .eml, and nowhere else.
C9_Original == C9_Statement(args.output # None)

\* C9 (amended): the same, where an output directory that is the empty
\* string counts as not given.
C9_OutputPath == C9_Statement(Truthy(args.output))

\* C9 witness: a batch run with an output directory has converted a file of a
\* subdirectory.
C9_Witness ==
    /\ pc = "conv_ret"
    /\ mode = "dir"
    /\ result # None
    /\ Truthy(args.output)
    /\ Len(RelativeTo(msg_path, args.directory[1])) = 2

\* C10 (as stated): in a batch run two different files the glob found get
\* different output paths, and no output path is the path of a file it found.
C10_OutputsDistinct ==
    (mode = "dir" /\ pc = "loop") =>
        \A f \in msg_files, g \in msg_files :
            LET out(x) == BatchOutput(x, args.directory[1], args.output)
            IN  /\ f # g => out(f) # out(g)
                /\ out(f) # g

====
